---- MODULE Spec2Model ----
(***************************************************************************)
(* Roster reconciliation of leingang/ccds-coursedata (src/enrollment.py).  *)
(*                                                                         *)
(* A section's timeline (roster_files) is a date-ordered list of roster    *)
(* CSV files.  generate_enrollment_roster walks it once to compute each    *)
(* student's enrollment date and dropped date and writes the most recent   *)
(* roster augmented with both; generate_enrollment_report walks it once to *)
(* collect, per date, the new, dropped and withdrawn students.             *)
(*                                                                         *)
(* Each walk is modelled loop iteration by loop iteration: one action per  *)
(* pass through the body of `for date_str, csv_file in roster_files`, one  *)
(* for the early return on an empty list and one for the code after the    *)
(* loop.  A capture date is modelled by the position of its file in the    *)
(* sorted list (date_str = i for roster_files[i]); a campus id is the      *)
(* string str() makes of the "Campus ID" cell, the same at every place the *)
(* code converts it (lines 98, 106, 122, 125, 193).  Writing the output    *)
(* file (to_csv, the PDF build) is taken to succeed once the output        *)
(* directory is there; the directory can be created in every run of one    *)
(* function, and may be impossible to create when the commands of          *)
(* src/dataset.py run the functions section after section.                 *)
(*                                                                         *)
(* The two Gradescope commands of src/tasks.py are modelled step by step   *)
(* as well.  What the edubag clients do is outside the repository: a call  *)
(* of a client either returns or raises, and the model takes either.       *)
(***************************************************************************)
EXTENDS Integers, Sequences, FiniteSets, TLC

\* Bounds of the model: the longest timeline explored, and the longest one
\* explored with status notes in the rows; the longest one both walks are
\* run on together; the most dated directories find_roster_files is given.
MaxSnapshots == 4
MaxNoted == 3
MaxBoth == 3
MaxDirs == 3

\* The longest timeline of one student the two functions are compared on.
MaxAgree == 4

\* The most sections one command goes through, and the longest timeline of
\* a section there.
MaxSections == 2
MaxPerSection == 2

\* The most courses sync_gradescope_rosters is given, and the most course
\* pairs sync_gradescope_sections goes through.
MaxCourses == 3
MaxPairs == 2

\* The students of the section (values of str(row["Campus ID"])), in the
\* order the source system lists them.
IdOrder == <<"N1", "N2">>
CampusIds == {IdOrder[k] : k \in DOMAIN IdOrder}

\* row["Status"] values; the code tests only equality with "Enrolled".
Enrolled == "Enrolled"
Waitlisted == "Waitlisted"
Dropped == "Dropped"

\* The status of a row of a file that has no "Status" column.
NoColumn == "<no column>"

\* str(row.get("Status Notes", "")) before .strip(): an empty cell reads as
\* NaN and str() makes "nan" of it.
NoteNan == "nan"
NoteWithdrawn == "Withdrawn"
NotePadded == " Withdrawn "

\* (first_name, last_name, email) as printed in the report, one per student.
FirstNameOf(cid) == IF cid = "N1" THEN "Ada" ELSE "Bob"
LastNameOf(cid) == IF cid = "N1" THEN "Lovelace" ELSE "Noyce"
EmailOf(cid) == IF cid = "N1" THEN "al1@nyu.edu" ELSE "bn2@nyu.edu"

----------------------------------------------------------------------------
(* The input: rows, files, timelines *)

\* One row of a roster file, by column.
RowOf(cid, status, notes) ==
    [campus_id |-> cid, first_name |-> FirstNameOf(cid),
     last_name |-> LastNameOf(cid), email |-> EmailOf(cid),
     status |-> status, status_notes |-> notes]

RowsWith(statuses, notes) ==
    {RowOf(cid, s, n) : cid \in CampusIds, s \in statuses, n \in notes}

\* The row lists of a file: any rows in any order, campus ids unique
\* within the file.
RowSeqs(rows) ==
    {s \in UNION {[1..n -> rows] : n \in 0..Cardinality(CampusIds)} :
        \A i, j \in DOMAIN s : i # j => s[i].campus_id # s[j].campus_id}

\* The row lists in the order the source system lists the students.  The
\* rosters that have every column are explored with their rows in this
\* order: on such a file neither walk raises, and the dates and the
\* membership of the lists it computes do not depend on the order of the
\* rows.
Position(cid) == CHOOSE k \in DOMAIN IdOrder : IdOrder[k] = cid
ListedRowSeqs(rows) ==
    {s \in RowSeqs(rows) :
        \A i, j \in DOMAIN s :
            i < j => Position(s[i].campus_id) < Position(s[j].campus_id)}

\* A file pd.read_csv parses, with every column the code reads.
GoodFiles(rows) ==
    {[readable |-> TRUE, has_status |-> TRUE, rows |-> s] :
        s \in ListedRowSeqs(rows)}

\* A file pd.read_csv parses that has no "Status" column: the first
\* student listed alone, or the first two.
NoStatusFiles(notes) ==
    {[readable |-> TRUE, has_status |-> FALSE,
      rows |-> [k \in 1..n |-> RowOf(IdOrder[k], NoColumn, nt)]] :
        n \in 1..Len(IdOrder), nt \in notes}

\* A file pd.read_csv raises on (missing, empty, not a CSV).
UnreadableFile == [readable |-> FALSE, has_status |-> FALSE, rows |-> <<>>]

\* roster_files: (date_str, csv_file) tuples sorted by date, dates distinct.
Timelines(files, longest) ==
    UNION {[1..n -> files] : n \in 0..longest}

----------------------------------------------------------------------------
(* Python dicts and sets *)

\* d[k] = v
Put(d, k, v) == [x \in (DOMAIN d) \cup {k} |-> IF x = k THEN v ELSE d[x]]

\* d.get(k), Series.map(d): <<d[k]>>, or <<>> for None / NaN
Get(d, k) == IF k \in DOMAIN d THEN <<d[k]>> ELSE <<>>

EmptyDict == [x \in {} |-> x]

\* set(str(cid) for cid in df["Campus ID"].tolist())
IdsOf(rows) == {rows[k].campus_id : k \in DOMAIN rows}

VARIABLES
    roster_files,        \* the timeline both walks are given
    \* generate_enrollment_roster
    r_pc,                \* "loop", "done"
    r_i,                 \* files of roster_files the loop has been through
    enrollment_dates,    \* campus id -> date
    dropped_dates,       \* campus id -> date
    student_records,     \* campus id -> most recent row
    previous_students,   \* campus ids of the last file processed
    r_df,                \* rows of the most recent roster with both dates
    extra_rows,          \* rows built for the students not in it
    r_result,            \* "none" (return None), "file" (return output_file)
    \* generate_enrollment_report
    rp_pc,               \* "loop", "done"
    rp_i,                \* files of roster_files the loop has been through
    report_previous_students, \* (campus id, student_info) in dict order
    withdrawn_students_set,   \* campus ids reported withdrawn so far
    events_by_date,      \* one record per file processed
    rp_result,           \* "none", "file", or "raised" (an exception leaves it)
    \* a second run of both functions on the same files
    first_run,           \* <<>>, or <<what the first run returned>>
    \* the --output-dir of the commands
    output_dir_ok,       \* output_dir.mkdir(parents=True, exist_ok=True) works
    \* dataset.py: enrollment_rosters and enrollment_reports
    command,             \* "rosters", "reports", or "none" outside a command
    sections,            \* the roster_files of each section, in dict order
    s_pc,                \* "off", "loop", "call", "done"
    s_i,                 \* sections the loop has been through
    batch_results,       \* what the function returned for each of them
    \* find_roster_files
    rosters_dir,         \* date -> what is at rosters_dir/<date>
    found,               \* <<>>, or <<the dict returned>>
    \* tasks.py: sync_gradescope_rosters
    edubag_available,    \* EDUBAG_AVAILABLE
    course_ids,          \* `courses or configured_courses`
    sr_pc,               \* "off", "start", "loop", "done"
    sr_i,                \* courses the loop has been through
    attempted,           \* the calls of client.sync_roster: the course, and
                         \* whether the call returned
    success,             \* the counter of line 202
    sr_exit,             \* -1 while running, then the exit code
    \* tasks.py: sync_gradescope_sections
    headless,            \* the --headless/--headed option
    course_pairs,        \* the course pairs to sync
    gradebooks,          \* the *.csv under brightspace/gradebooks
    ss_pc,               \* "off", "start", "roster", "download",
                         \* "fallback", "count", "send", "done"
    ss_i,                \* course pairs the loop has been through
    attempts,            \* the passes of the loop of line 398, this pair
    gradebook_paths,     \* <<>> for None, or <<what the variable holds>>
    ss_source,           \* where gradebook_paths is from, this pair
    ss_exit              \* "running"; "ok"; the place typer.Exit(code=1)
                         \* was raised; "raised" for any other exception

roster_vars == <<r_pc, r_i, enrollment_dates, dropped_dates, student_records,
                 previous_students, r_df, extra_rows, r_result>>

report_vars == <<rp_pc, rp_i, report_previous_students,
                 withdrawn_students_set, events_by_date, rp_result>>

batch_vars == <<command, sections, s_pc, s_i, batch_results>>

find_vars == <<rosters_dir, found>>

sync_rosters_vars == <<edubag_available, course_ids, sr_pc, sr_i, attempted,
                       success, sr_exit>>

sync_sections_vars == <<headless, course_pairs, gradebooks, ss_pc, ss_i,
                        attempts, gradebook_paths, ss_source, ss_exit>>

tasks_vars == <<sync_rosters_vars, sync_sections_vars>>

\* What neither walk touches.
outer_vars == <<first_run, output_dir_ok, batch_vars, find_vars, tasks_vars>>

vars == <<roster_files, roster_vars, report_vars, outer_vars>>

----------------------------------------------------------------------------
(* generate_enrollment_roster *)

\* NotTracked without the test: every "Enrolled" row sets the date again.
NotTrackedForgotten(campus_id, dates) == TRUE

\* Line 103, left of `and`: the student has no enrollment date yet.
NotTracked(campus_id, dates) == campus_id \notin DOMAIN dates

\* Lines 97-104, the rows from the k-th on: the record is overwritten, the
\* enrollment date is set once.  `campus_id not in enrollment_dates and
\* row["Status"] == "Enrolled"` reads row["Status"] only for a student with
\* no enrollment date yet, and raises KeyError there when the file has no
\* such column; what was assigned before stays assigned.
RECURSIVE TrackEnrollments(_, _, _, _, _, _)
TrackEnrollments(rows, k, has_status, date_str, records, dates) ==
    IF k > Len(rows)
    THEN [raised |-> FALSE, records |-> records, dates |-> dates]
    ELSE LET row == rows[k]
             campus_id == row.campus_id
             records2 == Put(records, campus_id, row)
         IN  IF ~NotTracked(campus_id, dates)
             THEN TrackEnrollments(rows, k + 1, has_status, date_str,
                                   records2, dates)
             ELSE IF ~has_status
             THEN [raised |-> TRUE, records |-> records2, dates |-> dates]
             ELSE IF row.status = Enrolled
             THEN TrackEnrollments(rows, k + 1, has_status, date_str,
                                   records2, Put(dates, campus_id, date_str))
             ELSE TrackEnrollments(rows, k + 1, has_status, date_str,
                                   records2, dates)

\* DetectDrops without `if campus_id not in dropped_dates`: the last date a
\* student went missing is kept.
DetectDropsOverwriting(dropped, previous, current, date_str) ==
    [c \in (DOMAIN dropped) \cup (previous \ current) |->
        IF c \in previous \ current THEN date_str ELSE dropped[c]]

\* DetectDrops dating a drop by the date before, the last one with the
\* student on the roster.
DetectDropsLastSeen(dropped, previous, current, date_str) ==
    [c \in (DOMAIN dropped) \cup (previous \ current) |->
        IF c \in DOMAIN dropped THEN dropped[c] ELSE date_str - 1]

\* DetectDrops keeping only the students missing on this date.
DetectDropsForgetting(dropped, previous, current, date_str) ==
    [c \in previous \ current |-> date_str]

\* DetectDrops taking every change of the roster for a drop: the students
\* who came count as well as the students who left.
DetectDropsEitherWay(dropped, previous, current, date_str) ==
    [c \in (DOMAIN dropped) \cup (previous \ current)
                            \cup (current \ previous) |->
        IF c \in DOMAIN dropped THEN dropped[c] ELSE date_str]

\* Lines 107-110: the first date a student is missing is kept.
DetectDrops(dropped, previous, current, date_str) ==
    [c \in (DOMAIN dropped) \cup (previous \ current) |->
        IF c \in DOMAIN dropped THEN dropped[c] ELSE date_str]

\* Lines 78-80.
RosterNoFiles ==
    /\ r_pc = "loop"
    /\ roster_files = <<>>
    /\ r_pc' = "done"
    /\ r_result' = "none"
    /\ UNCHANGED <<roster_files, r_i, enrollment_dates, dropped_dates,
                   student_records, previous_students, r_df, extra_rows>>
    /\ UNCHANGED report_vars
    /\ UNCHANGED outer_vars

\* pd.read_csv taking a file it cannot read for a roster without rows.
ReadCsvEmptyOnError(csv_file) ==
    [raised |-> FALSE,
     has_status |-> IF csv_file.readable THEN csv_file.has_status ELSE TRUE,
     rows |-> csv_file.rows]

\* Lines 94, 119 and 186, pd.read_csv(csv_file): the data frame, or the
\* exception raised on a file that cannot be read.
ReadCsv(csv_file) ==
    [raised |-> ~csv_file.readable,
     has_status |-> csv_file.has_status,
     rows |-> csv_file.rows]

\* RosterFile taking the students of the previous file from the dict the
\* report walk keeps, as if previous_students were one module-level name.
RosterFileSharingPrevious ==
    /\ r_pc = "loop"
    /\ r_i < Len(roster_files)
    /\ LET date_str == r_i + 1
           csv_file == roster_files[r_i + 1]
           df == ReadCsv(csv_file)
           t == TrackEnrollments(df.rows, 1, df.has_status,
                                 date_str, student_records, enrollment_dates)
           current_students == IdsOf(df.rows)
           shared == {report_previous_students[k][1] :
                         k \in DOMAIN report_previous_students}
       IN  /\ r_i' = r_i + 1
           /\ IF df.raised
              THEN UNCHANGED <<enrollment_dates, dropped_dates,
                               student_records, previous_students>>
              ELSE IF t.raised
              THEN /\ student_records' = t.records
                   /\ enrollment_dates' = t.dates
                   /\ UNCHANGED <<dropped_dates, previous_students>>
              ELSE /\ student_records' = t.records
                   /\ enrollment_dates' = t.dates
                   /\ dropped_dates' = DetectDrops(dropped_dates,
                          shared, current_students, date_str)
                   /\ previous_students' = current_students
    /\ UNCHANGED <<roster_files, r_pc, r_df, extra_rows, r_result>>
    /\ UNCHANGED report_vars
    /\ UNCHANGED outer_vars

\* Lines 92-114, one pass through the loop body.
RosterFile ==
    /\ r_pc = "loop"
    /\ r_i < Len(roster_files)
    /\ LET date_str == r_i + 1
           csv_file == roster_files[r_i + 1]
           df == ReadCsv(csv_file)
           t == TrackEnrollments(df.rows, 1, df.has_status,
                                 date_str, student_records, enrollment_dates)
           current_students == IdsOf(df.rows)
       IN  /\ r_i' = r_i + 1
           /\ IF df.raised
              THEN \* pd.read_csv raised: except, continue
                   UNCHANGED <<enrollment_dates, dropped_dates,
                               student_records, previous_students>>
              ELSE IF t.raised
              THEN \* KeyError in the row loop: except, continue
                   /\ student_records' = t.records
                   /\ enrollment_dates' = t.dates
                   /\ UNCHANGED <<dropped_dates, previous_students>>
              ELSE /\ student_records' = t.records
                   /\ enrollment_dates' = t.dates
                   /\ dropped_dates' = DetectDrops(dropped_dates,
                          previous_students, current_students, date_str)
                   /\ previous_students' = current_students
    /\ UNCHANGED <<roster_files, r_pc, r_df, extra_rows, r_result>>
    /\ UNCHANGED report_vars
    /\ UNCHANGED outer_vars

\* WithDates marking every student with a dropped date as "Dropped".
WithDatesMarkingDropped(row, enrolled, dropped) ==
    [campus_id |-> row.campus_id, first_name |-> row.first_name,
     last_name |-> row.last_name, email |-> row.email,
     status |-> IF row.campus_id \in DOMAIN dropped THEN Dropped
                ELSE row.status,
     status_notes |-> row.status_notes,
     enrollment_date |-> Get(enrolled, row.campus_id),
     dropped_date |-> Get(dropped, row.campus_id)]

\* Lines 122-123: the row of the most recent roster with its two dates.
WithDates(row, enrolled, dropped) ==
    [campus_id |-> row.campus_id, first_name |-> row.first_name,
     last_name |-> row.last_name, email |-> row.email,
     status |-> row.status, status_notes |-> row.status_notes,
     enrollment_date |-> Get(enrolled, row.campus_id),
     dropped_date |-> Get(dropped, row.campus_id)]

\* Lines 133-138: the row of a student who is not in the most recent roster.
ExtraRow(campus_id, records, enrolled, dropped) ==
    LET base == records[campus_id]
    IN  [campus_id |-> campus_id, first_name |-> base.first_name,
         last_name |-> base.last_name, email |-> base.email,
         status |-> Dropped, status_notes |-> base.status_notes,
         enrollment_date |-> Get(enrolled, campus_id),
         dropped_date |-> Get(dropped, campus_id)]

\* The orders in which `for campus_id in missing_ids` may go through a set of
\* strings (the hash of a str changes from one interpreter run to the next).
Orders(S) ==
    {s \in [1..Cardinality(S) -> S] : \A c \in S : \E k \in DOMAIN s : s[k] = c}

\* MissingIds without the subtraction: every student ever seen.
MissingIdsEveryone(records, df_rows) == DOMAIN records

\* Lines 125-127: the students with a record who are not in the most recent
\* roster.
MissingIds(records, df_rows) == (DOMAIN records) \ IdsOf(df_rows)

\* Lines 117-154.
RosterFinal ==
    /\ r_pc = "loop"
    /\ roster_files # <<>>
    /\ r_i = Len(roster_files)
    /\ r_pc' = "done"
    /\ LET most_recent_file == roster_files[Len(roster_files)]
           df == ReadCsv(most_recent_file)
           missing_ids == MissingIds(student_records, df.rows)
       IN  IF df.raised
           THEN \* pd.read_csv raised: except, return None
                /\ r_result' = "none"
                /\ UNCHANGED <<r_df, extra_rows>>
           ELSE \* an exception of mkdir (line 146) is caught at line 152
                /\ r_result' = IF output_dir_ok THEN "file" ELSE "none"
                /\ r_df' = [k \in DOMAIN df.rows |->
                              WithDates(df.rows[k],
                                        enrollment_dates, dropped_dates)]
                /\ \E order \in Orders(missing_ids) :
                       extra_rows' = [k \in DOMAIN order |->
                           ExtraRow(order[k], student_records,
                                    enrollment_dates, dropped_dates)]
    /\ UNCHANGED <<roster_files, r_i, enrollment_dates, dropped_dates,
                   student_records, previous_students>>
    /\ UNCHANGED report_vars
    /\ UNCHANGED outer_vars

RosterInit ==
    /\ r_pc = "loop"
    /\ r_i = 0
    /\ enrollment_dates = EmptyDict
    /\ dropped_dates = EmptyDict
    /\ student_records = EmptyDict
    /\ previous_students = {}
    /\ r_df = <<>>
    /\ extra_rows = <<>>
    /\ r_result = "running"

RosterNext ==
    \/ RosterNoFiles
    \/ RosterFile
    \/ RosterFinal

----------------------------------------------------------------------------
(* generate_enrollment_report *)

\* str.strip() on the status notes the files hold.
Strip(notes) == IF notes = NotePadded THEN NoteWithdrawn ELSE notes

\* Line 200.
StudentInfo(row) == <<row.first_name, row.last_name, row.email>>

\* current_students[campus_id] = student_info: a dict keeps its keys in the
\* order of their first assignment.
PutInOrder(d, k, v) ==
    IF \E n \in DOMAIN d : d[n][1] = k
    THEN [n \in DOMAIN d |-> IF d[n][1] = k THEN <<k, v>> ELSE d[n]]
    ELSE Append(d, <<k, v>>)

Keys(d) == {d[n][1] : n \in DOMAIN d}

\* IsNew without the status test: every student not in the previous roster.
IsNewAnyStatus(campus_id, status, previous) ==
    campus_id \notin Keys(previous)

\* IsNew with the status test the wrong way round.
IsNewNotEnrolled(campus_id, status, previous) ==
    campus_id \notin Keys(previous) /\ status # Enrolled

\* IsNew without the previous roster: every enrolled student.
IsNewEveryDate(campus_id, status, previous) ==
    status = Enrolled

\* Line 204: a new enrollment.
IsNew(campus_id, status, previous) ==
    campus_id \notin Keys(previous) /\ status = Enrolled

\* IsWithdrawn without the set of students already reported.
IsWithdrawnEveryDate(campus_id, status_notes, withdrawn) ==
    status_notes = NoteWithdrawn

\* Line 208: a withdrawal not reported yet.
IsWithdrawn(campus_id, status_notes, withdrawn) ==
    status_notes = NoteWithdrawn /\ campus_id \notin withdrawn

\* AddWithdrawn keeping only the student just reported.
AddWithdrawnAlone(withdrawn, campus_id) == {campus_id}

\* Line 210: withdrawn_students_set.add(campus_id).
AddWithdrawn(withdrawn, campus_id) == withdrawn \cup {campus_id}

\* Lines 192-210, the rows from the k-th on.
RECURSIVE ScanRows(_, _, _, _)
ScanRows(rows, k, previous, acc) ==
    IF k > Len(rows)
    THEN acc
    ELSE LET row == rows[k]
             campus_id == row.campus_id
             status_notes == Strip(row.status_notes)
             student_info == StudentInfo(row)
             new == IsNew(campus_id, row.status, previous)
             wd == IsWithdrawn(campus_id, status_notes, acc.withdrawn_set)
         IN  ScanRows(rows, k + 1, previous,
               [current |-> PutInOrder(acc.current, campus_id, student_info),
                new |-> IF new THEN Append(acc.new, student_info)
                        ELSE acc.new,
                withdrawn |-> IF wd THEN Append(acc.withdrawn, student_info)
                              ELSE acc.withdrawn,
                withdrawn_set |-> IF wd THEN AddWithdrawn(acc.withdrawn_set,
                                                          campus_id)
                                  ELSE acc.withdrawn_set])

\* IsDropped without the test: every student of the previous roster.
IsDroppedAlways(campus_id, current) == TRUE

\* IsDropped with the test the wrong way round: the students who stayed.
IsDroppedInverted(campus_id, current) == campus_id \in Keys(current)

\* Line 215: the student is not in the current roster.
IsDropped(campus_id, current) == campus_id \notin Keys(current)

\* Lines 213-216: previous_students.items() filtered, in dict order.
RECURSIVE DroppedStudents(_, _)
DroppedStudents(previous, current) ==
    IF previous = <<>>
    THEN <<>>
    ELSE LET rest == DroppedStudents(Tail(previous), current)
         IN  IF IsDropped(Head(previous)[1], current)
             THEN <<Head(previous)[2]>> \o rest
             ELSE rest

\* RecordEvent leaving out the dates without changes.
RecordEventIfChanges(events, event) ==
    IF event.new = <<>> /\ event.dropped = <<>> /\ event.withdrawn = <<>>
    THEN events
    ELSE Append(events, event)

\* Lines 218-226: "Record all dates, even if no events".
RecordEvent(events, event) == Append(events, event)

\* Lines 219-226.
DateEvent(date_str, new_students, dropped_students, withdrawn_students) ==
    [date |-> date_str, new |-> new_students, dropped |-> dropped_students,
     withdrawn |-> withdrawn_students]

\* Lines 173-175.
ReportNoFiles ==
    /\ rp_pc = "loop"
    /\ roster_files = <<>>
    /\ rp_pc' = "done"
    /\ rp_result' = "none"
    /\ UNCHANGED <<roster_files, rp_i, report_previous_students,
                   withdrawn_students_set, events_by_date>>
    /\ UNCHANGED roster_vars
    /\ UNCHANGED outer_vars

\* Lines 184-232, one pass through the loop body.  Every column but
\* "Status Notes" is read at the top of the row loop (lines 193-197), so a
\* file without "Status" raises KeyError on its first row, before anything
\* is assigned; a file without rows raises nothing.
ReportFile ==
    /\ rp_pc = "loop"
    /\ rp_i < Len(roster_files)
    /\ LET date_str == rp_i + 1
           csv_file == roster_files[rp_i + 1]
           df == ReadCsv(csv_file)
           scan == ScanRows(df.rows, 1, report_previous_students,
                            [current |-> <<>>, new |-> <<>>,
                             withdrawn |-> <<>>,
                             withdrawn_set |-> withdrawn_students_set])
       IN  /\ rp_i' = rp_i + 1
           /\ IF \/ df.raised
                 \/ (~df.has_status /\ df.rows # <<>>)
              THEN \* except, continue
                   UNCHANGED <<report_previous_students,
                               withdrawn_students_set, events_by_date>>
              ELSE /\ withdrawn_students_set' = scan.withdrawn_set
                   /\ events_by_date' = RecordEvent(events_by_date,
                          DateEvent(date_str, scan.new,
                              DroppedStudents(report_previous_students,
                                              scan.current),
                              scan.withdrawn))
                   /\ report_previous_students' = scan.current
    /\ UNCHANGED <<roster_files, rp_pc, rp_result>>
    /\ UNCHANGED roster_vars
    /\ UNCHANGED outer_vars

\* Lines 235-299.
ReportFinal ==
    /\ rp_pc = "loop"
    /\ roster_files # <<>>
    /\ rp_i = Len(roster_files)
    /\ rp_pc' = "done"
    /\ rp_result' = IF events_by_date = <<>> THEN "none"
                    ELSE IF output_dir_ok THEN "file"
                    ELSE \* mkdir at line 239 is outside the try of line 242
                         "raised"
    /\ UNCHANGED <<roster_files, rp_i, report_previous_students,
                   withdrawn_students_set, events_by_date>>
    /\ UNCHANGED roster_vars
    /\ UNCHANGED outer_vars

ReportInit ==
    /\ rp_pc = "loop"
    /\ rp_i = 0
    /\ report_previous_students = <<>>
    /\ withdrawn_students_set = {}
    /\ events_by_date = <<>>
    /\ rp_result = "running"

ReportNext ==
    \/ ReportNoFiles
    \/ ReportFile
    \/ ReportFinal

----------------------------------------------------------------------------
(* find_roster_files *)

\* Names of the dated directories, date.today().isoformat() of the day the
\* rosters were fetched (dataset.py line 49), listed in the order sorted()
\* gives to such strings, which is the order of the dates.
DateNames ==
    <<"2026-01-13", "2026-01-20", "2026-01-27", "2026-02-03", "2026-02-10">>
DirNames == {DateNames[k] : k \in 1..MaxDirs}

\* The place of a name in the order of str.
Rank(name) == CHOOSE k \in DOMAIN DateNames : DateNames[k] = name

\* File names, as Path.stem and Path.suffix.
CsvSuffix == ".csv"
FileNames ==
    {[stem |-> "001", suffix |-> CsvSuffix],
     [stem |-> "002", suffix |-> CsvSuffix],
     [stem |-> "001", suffix |-> ".xlsx"]}

\* What can be at rosters_dir/<name>: nothing, a plain file, or a directory
\* with some files in it.
Entries ==
    {[kind |-> "absent", files |-> {}], [kind |-> "file", files |-> {}]}
        \cup {[kind |-> "dir", files |-> fs] : fs \in SUBSET FileNames}
Directories == [DirNames -> Entries]

RECURSIVE SortedNames(_)
\* sorted(...) of a set of names
SortedNames(S) ==
    IF S = {} THEN <<>>
    ELSE LET least == CHOOSE x \in S : \A y \in S : Rank(x) <= Rank(y)
         IN  <<least>> \o SortedNames(S \ {least})

\* date_dir.glob("*") : every file of the directory
GlobAll(entry) == entry.files

\* Line 33, date_dir.glob("*.csv")
Glob(entry) == {f \in entry.files : f.suffix = CsvSuffix}

\* Lines 33-36: the files of one dated directory appended to the lists of
\* their sections (defaultdict(list)).
AppendFiles(result, date_str, csv_files) ==
    LET stems == {f.stem : f \in csv_files}
    IN  [section_name \in (DOMAIN result) \cup stems |->
            LET so_far == IF section_name \in DOMAIN result
                          THEN result[section_name] ELSE <<>>
            IN  IF section_name \in stems
                THEN so_far \o
                     [k \in 1..1 |->
                        <<date_str,
                          [dir |-> date_str,
                           name |-> CHOOSE f \in csv_files :
                                        f.stem = section_name]>>]
                ELSE so_far]

RECURSIVE CollectFiles(_, _, _, _)
\* Lines 27-36: the loop over sorted(rosters_dir.iterdir()).
CollectFiles(dir, date_dirs, k, result) ==
    IF k > Len(date_dirs) THEN result
    ELSE IF dir[date_dirs[k]].kind # "dir"
    THEN CollectFiles(dir, date_dirs, k + 1, result)
    ELSE CollectFiles(dir, date_dirs, k + 1,
             AppendFiles(result, date_dirs[k], Glob(dir[date_dirs[k]])))

RECURSIVE SortByDate(_)
\* Line 40, list.sort(key=lambda x: x[0]): a stable sort on the date.
SortByDate(list) ==
    IF list = <<>> THEN <<>>
    ELSE LET k == CHOOSE i \in DOMAIN list :
                      /\ \A j \in DOMAIN list :
                             Rank(list[i][1]) <= Rank(list[j][1])
                      /\ \A j \in 1..(i - 1) :
                             Rank(list[j][1]) # Rank(list[i][1])
             rest == [j \in 1..(Len(list) - 1) |->
                         IF j < k THEN list[j] ELSE list[j + 1]]
         IN  <<list[k]>> \o SortByDate(rest)

\* Lines 14-42.
FindRosterFiles ==
    /\ found = <<>>
    /\ LET present == {name \in DirNames : rosters_dir[name].kind # "absent"}
           collected == CollectFiles(rosters_dir, SortedNames(present), 1,
                                     EmptyDict)
       IN  found' = <<[section_name \in DOMAIN collected |->
                         SortByDate(collected[section_name])]>>
    /\ UNCHANGED <<roster_files, roster_vars, report_vars, first_run,
                   output_dir_ok, batch_vars, rosters_dir, tasks_vars>>

----------------------------------------------------------------------------
(* src/dataset.py: enrollment_rosters and enrollment_reports *)

\* A new call of generate_enrollment_roster: lines 82-89.
RosterStart ==
    /\ r_pc' = "loop"
    /\ r_i' = 0
    /\ enrollment_dates' = EmptyDict
    /\ dropped_dates' = EmptyDict
    /\ student_records' = EmptyDict
    /\ previous_students' = {}
    /\ r_df' = <<>>
    /\ extra_rows' = <<>>
    /\ r_result' = "running"

\* A new call of generate_enrollment_report: lines 177-182.
ReportStart ==
    /\ rp_pc' = "loop"
    /\ rp_i' = 0
    /\ report_previous_students' = <<>>
    /\ withdrawn_students_set' = {}
    /\ events_by_date' = <<>>
    /\ rp_result' = "running"

\* The function the command calls has returned, or an exception left it.
CallOver == IF command = "rosters" THEN r_pc = "done" ELSE rp_pc = "done"

\* What the call gave: None, the output file with what was written to it,
\* or the exception.
CallResult ==
    IF command = "rosters"
    THEN [result |-> r_result,
          written |-> IF r_result = "file" THEN r_df \o extra_rows ELSE <<>>]
    ELSE [result |-> rp_result,
          written |-> IF rp_result = "file" THEN events_by_date ELSE <<>>]

\* The call ended with an exception, which goes on to the caller.
Propagates(call) == call.result = "raised"

\* Lines 471-473 and 506-508: the loop header and the call, with the
\* locals of the function called as lines 82-89 and 177-182 make them.
BatchCall ==
    /\ s_pc = "loop"
    /\ s_i < Len(sections)
    /\ s_pc' = "call"
    /\ roster_files' = sections[s_i + 1]
    /\ IF command = "rosters"
       THEN RosterStart /\ UNCHANGED report_vars
       ELSE ReportStart /\ UNCHANGED roster_vars
    /\ UNCHANGED <<command, sections, s_i, batch_results>>
    /\ UNCHANGED <<first_run, output_dir_ok, find_vars, tasks_vars>>

\* The call is over: the loop goes on, or the exception leaves the loop and
\* the command, for there is no try around lines 473 and 508.
BatchReturn ==
    /\ s_pc = "call"
    /\ CallOver
    /\ IF Propagates(CallResult)
       THEN /\ s_pc' = "raised"
            /\ UNCHANGED <<s_i, batch_results>>
       ELSE /\ s_pc' = "loop"
            /\ s_i' = s_i + 1
            /\ batch_results' = Append(batch_results, CallResult)
    /\ UNCHANGED <<command, sections>>
    /\ UNCHANGED <<roster_files, roster_vars, report_vars>>
    /\ UNCHANGED <<first_run, output_dir_ok, find_vars, tasks_vars>>

\* Lines 465-467 and 475, 500-502 and 510: no section, or no section left.
BatchEnd ==
    /\ s_pc = "loop"
    /\ s_i = Len(sections)
    /\ s_pc' = "done"
    /\ UNCHANGED <<command, sections, s_i, batch_results>>
    /\ UNCHANGED <<roster_files, roster_vars, report_vars>>
    /\ UNCHANGED <<first_run, output_dir_ok, find_vars, tasks_vars>>

\* The function called goes through the files of the section; its list is
\* never empty (find_roster_files makes a key only when it has a file), so
\* the returns of lines 78-80 and 173-175 are not taken.
BatchRosterStep ==
    /\ s_pc = "call"
    /\ command = "rosters"
    /\ RosterFile \/ RosterFinal

BatchReportStep ==
    /\ s_pc = "call"
    /\ command = "reports"
    /\ ReportFile \/ ReportFinal

BatchNext ==
    \/ BatchCall
    \/ BatchRosterStep
    \/ BatchReportStep
    \/ BatchReturn
    \/ BatchEnd

----------------------------------------------------------------------------
(* src/tasks.py: sync_gradescope_rosters *)

CourseNames == {"c1", "c2"}

\* ExitCode with any failed course counted against the command.
ExitCodeAllOrNothing(synced, n) == IF synced < n THEN 1 ELSE 0

\* Lines 206-207: `if success == 0: raise typer.Exit(code=1)`.
ExitCode(synced, n) == IF synced = 0 THEN 1 ELSE 0

\* What sync_gradescope_rosters leaves alone.
SyncRostersFrame ==
    /\ UNCHANGED <<roster_files, roster_vars, report_vars>>
    /\ UNCHANGED <<first_run, output_dir_ok, batch_vars, find_vars>>
    /\ UNCHANGED sync_sections_vars

\* Lines 163-171: without edubag, or without a course, the command exits
\* with code 1 before the loop.  Lines 173-191 only log warnings.
SyncRostersStart ==
    /\ sr_pc = "start"
    /\ IF ~edubag_available \/ course_ids = <<>>
       THEN sr_pc' = "done" /\ sr_exit' = 1
       ELSE sr_pc' = "loop" /\ UNCHANGED sr_exit
    /\ UNCHANGED <<edubag_available, course_ids, sr_i, attempted, success>>
    /\ SyncRostersFrame

\* Lines 195-204, one pass: client.sync_roster(cid) returns and the counter
\* goes up, or it raises and the exception is logged.
SyncRoster ==
    /\ sr_pc = "loop"
    /\ sr_i < Len(course_ids)
    /\ \E raised \in BOOLEAN :
          /\ attempted' = Append(attempted, [cid |-> course_ids[sr_i + 1],
                                             synced |-> ~raised])
          /\ success' = IF raised THEN success ELSE success + 1
    /\ sr_i' = sr_i + 1
    /\ UNCHANGED <<edubag_available, course_ids, sr_pc, sr_exit>>
    /\ SyncRostersFrame

\* Lines 206-207.
SyncRostersEnd ==
    /\ sr_pc = "loop"
    /\ sr_i = Len(course_ids)
    /\ sr_pc' = "done"
    /\ sr_exit' = ExitCode(success, Len(course_ids))
    /\ UNCHANGED <<edubag_available, course_ids, sr_i, attempted, success>>
    /\ SyncRostersFrame

SyncRostersNext ==
    \/ SyncRostersStart
    \/ SyncRoster
    \/ SyncRostersEnd

----------------------------------------------------------------------------
(* src/tasks.py: sync_gradescope_sections *)

\* A gradebook under brightspace/gradebooks: the directory it is in, the
\* one of TODAY or one of another date, and its st_mtime.
GradebookFile(dir, mtime) == [dir |-> dir, mtime |-> mtime]

\* sorted(..., key=st_mtime, reverse=True)[0]
MostRecent(files) ==
    CHOOSE f \in files : \A g \in files : g.mtime <= f.mtime

TodayFiles(files) == {f \in files : f.dir = "today"}

\* Lines 123-127, on save_dir = raw_gradebooks_dir: <<>> for None.
FindLatestGradebook(files) ==
    IF TodayFiles(files) = {} THEN <<>> ELSE <<MostRecent(TodayFiles(files))>>

\* Lines 131-138: rglob over every directory of gradebooks.
FindLatestGradebookAnywhere(files) ==
    IF files = {} THEN <<>> ELSE <<MostRecent(files)>>

\* Fallback looking everywhere before it looks in today's directory.
FallbackAnywhereFirst(files) ==
    LET fallback == FindLatestGradebook(files)
        fallback_any == FindLatestGradebookAnywhere(files)
    IN  IF fallback_any # <<>>
        THEN [source |-> "anywhere", files |-> fallback_any]
        ELSE IF fallback # <<>>
        THEN [source |-> "today", files |-> fallback]
        ELSE [source |-> "none", files |-> <<>>]

\* Lines 416-431: the gradebook used when no download gave one.
Fallback(files) ==
    LET fallback == FindLatestGradebook(files)
        fallback_any == FindLatestGradebookAnywhere(files)
    IN  IF fallback # <<>>
        THEN [source |-> "today", files |-> fallback]
        ELSE IF fallback_any # <<>>
        THEN [source |-> "anywhere", files |-> fallback_any]
        ELSE [source |-> "none", files |-> <<>>]

\* Lines 81-85: the call with headless=..., and the call again without it
\* when the first one raises TypeError.
CallWithHeadless(first, second) ==
    IF first = "type_error" THEN second ELSE first

\* The file a download saves in today's directory: the newest there is.
NewFile(files) ==
    GradebookFile("today",
        IF files = {} THEN 1 ELSE MostRecent(files).mtime + 1)

\* What brightspace_client.save_gradebook returns after saving n files: a
\* list of paths, or one path.
Returned(files, n, is_list) ==
    LET f1 == NewFile(files)
        f2 == NewFile(files \cup {f1})
    IN  [is_list |-> is_list,
         files |-> IF n = 0 THEN <<>>
                   ELSE IF n = 1 THEN <<f1>> ELSE <<f1, f2>>]

ReturnValues(files) ==
    {Returned(files, n, TRUE) : n \in 0..2} \cup {Returned(files, 1, FALSE)}

\* What sync_gradescope_sections leaves alone.
SyncSectionsFrame ==
    /\ UNCHANGED <<roster_files, roster_vars, report_vars>>
    /\ UNCHANGED <<first_run, output_dir_ok, batch_vars, find_vars>>
    /\ UNCHANGED sync_rosters_vars

\* Lines 254-373: the modules are there, the course pairs are found and
\* both clients authenticate, or the command exits with code 1.
SyncSectionsStart ==
    /\ ss_pc = "start"
    /\ \E ready \in BOOLEAN :
          IF ~ready \/ course_pairs = <<>>
          THEN ss_pc' = "done" /\ ss_exit' = "start"
          ELSE ss_pc' = "roster" /\ UNCHANGED ss_exit
    /\ UNCHANGED <<headless, course_pairs, gradebooks, ss_i, attempts,
                   gradebook_paths, ss_source>>
    /\ SyncSectionsFrame

\* Lines 374-397: the roster of the pair is saved; gradebook_paths and
\* last_error start as None.
SaveRoster ==
    /\ ss_pc = "roster"
    /\ ss_i < Len(course_pairs)
    /\ \E saved \in {"one", "several", "raised"} :
          /\ ss_pc' = IF saved = "one" THEN "download" ELSE "done"
          /\ ss_exit' = IF saved = "one" THEN ss_exit
                        ELSE IF saved = "several" THEN "roster_count"
                        ELSE "raised"
    /\ attempts' = <<>>
    /\ gradebook_paths' = <<>>
    /\ ss_source' = "none"
    /\ UNCHANGED <<headless, course_pairs, gradebooks, ss_i>>
    /\ SyncSectionsFrame

\* Lines 398-413, one pass of `for attempt_headless in (headless, False)`.
DownloadGradebook ==
    /\ ss_pc = "download"
    /\ LET attempt_headless == IF attempts = <<>> THEN headless ELSE FALSE
       IN  \E first \in {"returned", "raised", "type_error"},
              second \in {"returned", "raised"},
              value \in ReturnValues(gradebooks) :
              LET outcome == CallWithHeadless(first, second)
                  attempt == [headless |-> attempt_headless,
                              raised |-> outcome = "raised",
                              calls |-> IF first = "type_error" THEN 2 ELSE 1]
              IN  /\ attempts' = Append(attempts, attempt)
                  /\ IF outcome = "returned"
                     THEN \* break
                          /\ gradebook_paths' = <<value>>
                          /\ gradebooks' = gradebooks \cup
                                 {value.files[k] : k \in DOMAIN value.files}
                          /\ ss_source' = "download"
                          /\ ss_pc' = "count"
                     ELSE \* except Exception: warning, sleep, next pass
                          /\ ss_pc' = IF Len(attempts) = 1 THEN "fallback"
                                      ELSE "download"
                          /\ UNCHANGED <<gradebook_paths, gradebooks,
                                         ss_source>>
    /\ UNCHANGED <<headless, course_pairs, ss_i, ss_exit>>
    /\ SyncSectionsFrame

\* Lines 415-431: gradebook_paths is None after the loop.
UseFallback ==
    /\ ss_pc = "fallback"
    /\ LET fb == Fallback(gradebooks)
       IN  IF fb.source = "none"
           THEN \* raise typer.Exit(code=1) from last_error
                /\ ss_pc' = "done"
                /\ ss_exit' = "no_gradebook"
                /\ UNCHANGED <<gradebook_paths, ss_source>>
           ELSE /\ gradebook_paths' = <<[is_list |-> TRUE, files |-> fb.files]>>
                /\ ss_source' = fb.source
                /\ ss_pc' = "count"
                /\ UNCHANGED ss_exit
    /\ UNCHANGED <<headless, course_pairs, gradebooks, ss_i, attempts>>
    /\ SyncSectionsFrame

\* Lines 432-440: one gradebook, or exit with code 1.
CountGradebooks ==
    /\ ss_pc = "count"
    /\ IF gradebook_paths[1].is_list /\ Len(gradebook_paths[1].files) # 1
       THEN ss_pc' = "done" /\ ss_exit' = "gradebook_count"
       ELSE ss_pc' = "send" /\ UNCHANGED ss_exit
    /\ UNCHANGED <<headless, course_pairs, gradebooks, ss_i, attempts,
                   gradebook_paths, ss_source>>
    /\ SyncSectionsFrame

\* Lines 442-456: the sections are added and the roster is sent, or one of
\* the two calls raises and the exception leaves the command.
SendRoster ==
    /\ ss_pc = "send"
    /\ \E raised \in BOOLEAN :
          IF raised
          THEN ss_pc' = "done" /\ ss_exit' = "raised" /\ UNCHANGED ss_i
          ELSE ss_pc' = "roster" /\ ss_i' = ss_i + 1 /\ UNCHANGED ss_exit
    /\ UNCHANGED <<headless, course_pairs, gradebooks, attempts,
                   gradebook_paths, ss_source>>
    /\ SyncSectionsFrame

\* No course pair left.
SyncSectionsEnd ==
    /\ ss_pc = "roster"
    /\ ss_i = Len(course_pairs)
    /\ ss_pc' = "done"
    /\ ss_exit' = "ok"
    /\ UNCHANGED <<headless, course_pairs, gradebooks, ss_i, attempts,
                   gradebook_paths, ss_source>>
    /\ SyncSectionsFrame

SyncSectionsNext ==
    \/ SyncSectionsStart
    \/ SaveRoster
    \/ DownloadGradebook
    \/ UseFallback
    \/ CountGradebooks
    \/ SendRoster
    \/ SyncSectionsEnd

----------------------------------------------------------------------------
(* The specifications *)

\* Neither enrollment_rosters nor enrollment_reports is running.
BatchIdle ==
    /\ command = "none"
    /\ sections = <<>>
    /\ s_pc = "off"
    /\ s_i = 0
    /\ batch_results = <<>>

\* Neither command of tasks.py is running.
SyncRostersIdle ==
    /\ edubag_available = TRUE
    /\ course_ids = <<>>
    /\ sr_pc = "off"
    /\ sr_i = 0
    /\ attempted = <<>>
    /\ success = 0
    /\ sr_exit = -1

SyncSectionsIdle ==
    /\ headless = TRUE
    /\ course_pairs = <<>>
    /\ gradebooks = {}
    /\ ss_pc = "off"
    /\ ss_i = 0
    /\ attempts = <<>>
    /\ gradebook_paths = <<>>
    /\ ss_source = "none"
    /\ ss_exit = "running"

TasksIdle == SyncRostersIdle /\ SyncSectionsIdle

\* No second run, no command and no directory search under way.
OuterIdle ==
    /\ first_run = <<>>
    /\ output_dir_ok = TRUE
    /\ BatchIdle
    /\ rosters_dir = <<>>
    /\ found = <<>>
    /\ TasksIdle

\* The files both walks are run on: rosters with and without the "Status"
\* column, and files that cannot be read.
RosterInputs ==
    GoodFiles(RowsWith({Enrolled, Waitlisted}, {NoteNan}))
        \cup NoStatusFiles({NoteNan}) \cup {UnreadableFile}

\* The same without the two-student roster that has no "Status" column,
\* which the report walk skips like the one-student one.
ReportInputs ==
    {f \in RosterInputs : f.has_status \/ Len(f.rows) <= 1}

\* Rosters whose rows carry status notes.
NotedInputs ==
    GoodFiles(RowsWith({Enrolled}, {NoteNan, NoteWithdrawn, NotePadded}))
        \cup {UnreadableFile}

\* generate_enrollment_roster on every timeline.
Init ==
    /\ roster_files \in Timelines(RosterInputs, MaxSnapshots)
    /\ RosterInit
    /\ ReportInit
    /\ OuterIdle

Spec == Init /\ [][RosterNext]_vars

\* generate_enrollment_report on every timeline.
ReportSpecInit ==
    /\ roster_files \in Timelines(ReportInputs, MaxSnapshots)
                           \cup Timelines(NotedInputs, MaxNoted)
    /\ RosterInit
    /\ ReportInit
    /\ OuterIdle

ReportSpec == ReportSpecInit /\ [][ReportNext]_vars

\* Rosters whose rows change from one date to the next (the status notes),
\* with or without the "Status" column.
RecordInputs ==
    GoodFiles(RowsWith({Enrolled}, {NoteNan, NoteWithdrawn}))
        \cup NoStatusFiles({NoteNan, NoteWithdrawn}) \cup {UnreadableFile}

\* generate_enrollment_roster on timelines of such rosters.
RecordSpecInit ==
    /\ roster_files \in Timelines(RecordInputs, MaxNoted)
    /\ RosterInit
    /\ ReportInit
    /\ OuterIdle

RecordSpec == RecordSpecInit /\ [][RosterNext]_vars

\* Both functions on the same timeline, as enrollment_rosters and
\* enrollment_reports run them on the same rosters directory: each goes
\* through its own loop, in any order and with any interleaving of the
\* passes.
BothInit ==
    /\ roster_files \in Timelines(ReportInputs, MaxBoth)
    /\ RosterInit
    /\ ReportInit
    /\ OuterIdle

BothNext ==
    \/ RosterNext
    \/ ReportNext

BothSpec == BothInit /\ [][BothNext]_vars

\* The rosters of a section with one student.
OneStudentInputs == {f \in ReportInputs : IdsOf(f.rows) \subseteq {IdOrder[1]}}

\* Both functions on the same timeline, to compare what they find: the
\* timelines of BothSpec and longer ones of a single student.
AgreeInit ==
    /\ roster_files \in Timelines(ReportInputs, MaxBoth)
                           \cup Timelines(OneStudentInputs, MaxAgree)
    /\ RosterInit
    /\ ReportInit
    /\ OuterIdle

AgreeSpec == AgreeInit /\ [][BothNext]_vars

\* What one run of the two functions leaves behind: the roster written (or
\* None) and the events of the report (or None).
RunOutput ==
    [roster_result |-> r_result, roster_rows |-> r_df \o extra_rows,
     report_result |-> rp_result, events |-> events_by_date]

\* The same commands are run once more, in a new interpreter, on the same
\* rosters directory: both functions start again from lines 82-89 and
\* 177-182.
RunAgain ==
    /\ r_pc = "done"
    /\ rp_pc = "done"
    /\ first_run = <<>>
    /\ first_run' = <<RunOutput>>
    /\ RosterStart
    /\ ReportStart
    /\ UNCHANGED <<roster_files, output_dir_ok, batch_vars, find_vars,
                   tasks_vars>>

TwiceNext ==
    \/ RosterNext
    \/ ReportNext
    \/ RunAgain

\* Both functions run twice on the same timeline.
TwiceSpec == BothInit /\ [][TwiceNext]_vars

\* find_roster_files on every rosters directory.
FindInit ==
    /\ rosters_dir \in Directories
    /\ found = <<>>
    /\ roster_files = <<>>
    /\ RosterInit
    /\ ReportInit
    /\ first_run = <<>>
    /\ output_dir_ok = TRUE
    /\ BatchIdle
    /\ TasksIdle

FindNext == FindRosterFiles

FindSpec == FindInit /\ [][FindNext]_vars

\* The rosters of the sections of a command: one that lists a student as
\* enrolled, and one that cannot be read.
BatchInputs ==
    {f \in GoodFiles(RowsWith({Enrolled}, {NoteNan})) :
        IdsOf(f.rows) = {IdOrder[1]}} \cup {UnreadableFile}

\* What find_roster_files hands to a command: for each section a list of
\* at least one file.
SectionLists(most, longest) ==
    UNION {[1..n -> Timelines(BatchInputs, longest) \ {<<>>}] :
              n \in 0..most}

\* enrollment_rosters or enrollment_reports on every such dict of
\* sections, with an output directory that can be created or not.
BatchInit ==
    /\ command \in {"rosters", "reports"}
    /\ sections \in SectionLists(MaxSections, MaxPerSection)
    /\ output_dir_ok \in BOOLEAN
    /\ s_pc = "loop"
    /\ s_i = 0
    /\ batch_results = <<>>
    /\ roster_files = <<>>
    /\ RosterInit
    /\ ReportInit
    /\ first_run = <<>>
    /\ rosters_dir = <<>>
    /\ found = <<>>
    /\ TasksIdle

BatchSpec == BatchInit /\ [][BatchNext]_vars

\* The lists of at most n courses, a course listed twice included.
CourseLists(n) == UNION {[1..m -> CourseNames] : m \in 0..n}

\* sync_gradescope_rosters on every list of courses, with edubag installed
\* or not.
SyncRostersInit ==
    /\ edubag_available \in BOOLEAN
    /\ course_ids \in CourseLists(MaxCourses)
    /\ sr_pc = "start"
    /\ sr_i = 0
    /\ attempted = <<>>
    /\ success = 0
    /\ sr_exit = -1
    /\ SyncSectionsIdle
    /\ roster_files = <<>>
    /\ RosterInit
    /\ ReportInit
    /\ first_run = <<>>
    /\ output_dir_ok = TRUE
    /\ BatchIdle
    /\ rosters_dir = <<>>
    /\ found = <<>>

SyncRostersSpec == SyncRostersInit /\ [][SyncRostersNext]_vars

\* The gradebooks there may be before the command runs: one saved today,
\* and two of another date, one touched before it and one after.
GradebooksBefore ==
    {GradebookFile("earlier", 1), GradebookFile("today", 2),
     GradebookFile("earlier", 3)}

\* sync_gradescope_sections on up to MaxPairs course pairs, headless or
\* headed, with any of the gradebooks already there.
SyncSectionsInit ==
    /\ headless \in BOOLEAN
    /\ course_pairs \in {[k \in 1..m |-> k] : m \in 0..MaxPairs}
    /\ gradebooks \in SUBSET GradebooksBefore
    /\ ss_pc = "start"
    /\ ss_i = 0
    /\ attempts = <<>>
    /\ gradebook_paths = <<>>
    /\ ss_source = "none"
    /\ ss_exit = "running"
    /\ SyncRostersIdle
    /\ roster_files = <<>>
    /\ RosterInit
    /\ ReportInit
    /\ first_run = <<>>
    /\ output_dir_ok = TRUE
    /\ BatchIdle
    /\ rosters_dir = <<>>
    /\ found = <<>>

SyncSectionsSpec == SyncSectionsInit /\ [][SyncSectionsNext]_vars

----------------------------------------------------------------------------
(* What the timeline says, read off roster_files alone *)

Min(S) == CHOOSE x \in S : \A y \in S : x <= y
Max(S) == CHOOSE x \in S : \A y \in S : x >= y

\* <<the least element>>, or <<>> for None
First(S) == IF S = {} THEN <<>> ELSE <<Min(S)>>

FileIds(i) == IdsOf(roster_files[i].rows)

\* The file of date i lists the student with this status.
HasStatus(i, cid, status) ==
    /\ roster_files[i].readable
    /\ roster_files[i].has_status
    /\ \E k \in DOMAIN roster_files[i].rows :
          /\ roster_files[i].rows[k].campus_id = cid
          /\ roster_files[i].rows[k].status = status

EnrolledIn(i, cid) == HasStatus(i, cid, Enrolled)

\* The roster walk gets through the file of date i without an exception:
\* the file parses and, when it has no "Status" column, each of its
\* students was listed as enrolled on an earlier date.
RosterProcessed(i) ==
    /\ roster_files[i].readable
    /\ \/ roster_files[i].has_status
       \/ \A cid \in FileIds(i) : \E j \in 1..(i - 1) : EnrolledIn(j, cid)

\* The student was in the last file processed before date i and is not in
\* the file of date i, which is processed.
DisappearsAt(i, cid) ==
    /\ RosterProcessed(i)
    /\ cid \notin FileIds(i)
    /\ \E j \in 1..(i - 1) :
          /\ RosterProcessed(j)
          /\ cid \in FileIds(j)
          /\ \A m \in (j + 1)..(i - 1) : ~RosterProcessed(m)

\* The rows of the roster written.
OutputRows == r_df \o extra_rows
OutputIds == {OutputRows[k].campus_id : k \in DOMAIN OutputRows}
LastFile == roster_files[Len(roster_files)]

----------------------------------------------------------------------------
(* generate_enrollment_roster: the claims *)

\* C1: a student's enrollment date is the date of the earliest file that
\* lists the student as "Enrolled", and there is none exactly when no file
\* does: so at every point of the walk, for the files gone through, and so
\* in every row of the roster written.
EnrolledDateIsFirstEnrolled ==
    /\ \A cid \in CampusIds :
          Get(enrollment_dates, cid) =
              First({i \in 1..r_i : EnrolledIn(i, cid)})
    /\ r_result = "file" =>
          \A k \in DOMAIN OutputRows :
              OutputRows[k].enrollment_date =
                  First({i \in DOMAIN roster_files :
                            EnrolledIn(i, OutputRows[k].campus_id)})

\* C1, its case: a student enrolled, gone from the next roster and
\* enrolled again keeps the first date, and a student never enrolled is
\* written with no date.
ReEnrolledKeepsFirstDate ==
    /\ r_result = "file"
    /\ \E k \in DOMAIN OutputRows : OutputRows[k].enrollment_date = <<>>
    /\ \E k \in DOMAIN OutputRows : \E i, j, m \in DOMAIN roster_files :
          LET cid == OutputRows[k].campus_id
          IN  /\ i < j /\ j < m
              /\ EnrolledIn(i, cid) /\ DisappearsAt(j, cid)
              /\ EnrolledIn(m, cid)
              /\ OutputRows[k].enrollment_date = <<i>>

\* C2: a student's dropped date is the date of the earliest processed file
\* the student is missing from after being in the file processed just
\* before, and there is none when that never happens.
DroppedDateIsFirstDisappearance ==
    /\ \A cid \in CampusIds :
          Get(dropped_dates, cid) =
              First({i \in 1..r_i : DisappearsAt(i, cid)})
    /\ r_result = "file" =>
          \A k \in DOMAIN OutputRows :
              OutputRows[k].dropped_date =
                  First({i \in DOMAIN roster_files :
                            DisappearsAt(i, OutputRows[k].campus_id)})

\* C2, its case: a student who drops, reappears and drops again.
DroppedTwiceKeepsFirstDate ==
    /\ r_result = "file"
    /\ \E k \in DOMAIN OutputRows : \E i, j \in DOMAIN roster_files :
          LET cid == OutputRows[k].campus_id
          IN  /\ i < j
              /\ DisappearsAt(i, cid) /\ DisappearsAt(j, cid)
              /\ OutputRows[k].dropped_date = <<i>>

\* C3: whenever a file of the timeline is read, the roster written lists
\* exactly the students of the files read.
OutputIsUnionOfReadFiles ==
    (r_pc = "done" /\ \E i \in DOMAIN roster_files : RosterProcessed(i)) =>
        /\ r_result = "file"
        /\ OutputIds = UNION {FileIds(i) : i \in
                                {j \in DOMAIN roster_files : RosterProcessed(j)}}

\* C4: a file that cannot be read, the last one included, does not keep
\* the roster from being written when another file can be read.
UnreadableFileDoesNotAbort ==
    (r_pc = "done" /\ \E i \in DOMAIN roster_files : roster_files[i].readable)
        => r_result = "file"

----------------------------------------------------------------------------
(* generate_enrollment_report: the claims *)

\* The report walk gets through the file of date i without an exception.
ReportProcessed(i) ==
    /\ roster_files[i].readable
    /\ roster_files[i].has_status \/ roster_files[i].rows = <<>>

\* The dates up to i whose files the report walk gets through.
ReportDates(i) == {j \in 1..i : ReportProcessed(j)}

\* The students of the last file processed before date i.
IdsBefore(i) ==
    LET before == ReportDates(i - 1)
    IN  IF before = {} THEN {} ELSE FileIds(Max(before))

\* The file of date i notes the student as withdrawn, spaces around the
\* word or not.
NotedWithdrawn(i, cid) ==
    \E k \in DOMAIN roster_files[i].rows :
        /\ roster_files[i].rows[k].campus_id = cid
        /\ roster_files[i].rows[k].status_notes \in {NoteWithdrawn, NotePadded}

\* The students behind a list of (first_name, last_name, email) tuples.
InfoOf(cid) == <<FirstNameOf(cid), LastNameOf(cid), EmailOf(cid)>>
TimesListed(list, cid) ==
    Cardinality({n \in DOMAIN list : list[n] = InfoOf(cid)})
Listed(list) == {cid \in CampusIds : TimesListed(list, cid) > 0}

\* The events that list the student as withdrawn.
WithdrawnEvents(cid) ==
    {k \in DOMAIN events_by_date :
        TimesListed(events_by_date[k].withdrawn, cid) > 0}

\* C5: a student is listed as withdrawn in at most one event, once, and
\* that event is the one of the first processed file that notes the
\* student as withdrawn.
WithdrawnReportedOnce ==
    \A cid \in CampusIds :
        LET noted == {i \in ReportDates(rp_i) : NotedWithdrawn(i, cid)}
            reported == WithdrawnEvents(cid)
        IN  /\ Cardinality(reported) <= 1
            /\ {events_by_date[k].date : k \in reported} =
                   IF noted = {} THEN {} ELSE {Min(noted)}
            /\ \A k \in reported :
                   TimesListed(events_by_date[k].withdrawn, cid) = 1

\* C5, its case: the note stays in the next roster, a student noted as
\* withdrawn leaves and comes back with the note, and a note with spaces
\* around the word is reported.
WithdrawnNotePersists ==
    /\ rp_pc = "done"
    /\ \E cid \in CampusIds : \E k \in WithdrawnEvents(cid) :
          \E n \in DOMAIN roster_files[events_by_date[k].date].rows :
              LET row == roster_files[events_by_date[k].date].rows[n]
              IN  row.campus_id = cid /\ row.status_notes = NotePadded
    /\ \E cid \in CampusIds : \E i \in DOMAIN roster_files :
          /\ i + 1 \in DOMAIN roster_files
          /\ NotedWithdrawn(i, cid) /\ NotedWithdrawn(i + 1, cid)
          /\ WithdrawnEvents(cid) # {}
    /\ \E cid \in CampusIds : \E i, j, m \in DOMAIN roster_files :
          /\ i < j /\ j < m
          /\ NotedWithdrawn(i, cid)
          /\ ReportProcessed(j) /\ cid \notin FileIds(j)
          /\ NotedWithdrawn(m, cid)
          /\ WithdrawnEvents(cid) # {}

\* C6: the events are those of the files processed, one each, in
\* ascending date order.
OneEventPerReadFile ==
    /\ Len(events_by_date) = Cardinality(ReportDates(rp_i))
    /\ \A k \in DOMAIN events_by_date :
          events_by_date[k].date \in ReportDates(rp_i)
    /\ \A k, m \in DOMAIN events_by_date :
          k < m => events_by_date[k].date < events_by_date[m].date

\* C6, its case: an event with three empty lists, after an event with
\* entries, in a timeline with a file that cannot be read.
EmptyEventIsEmitted ==
    /\ rp_pc = "done"
    /\ \E i \in DOMAIN roster_files : ~roster_files[i].readable
    /\ \E k \in DOMAIN events_by_date :
          /\ k > 1
          /\ events_by_date[k - 1].new # <<>>
          /\ events_by_date[k].new = <<>>
          /\ events_by_date[k].dropped = <<>>
          /\ events_by_date[k].withdrawn = <<>>

\* C7 as claimed: the new students of an event are the students enrolled
\* in its file who are in no file processed before it.
NewIsNeverSeenBefore ==
    \A k \in DOMAIN events_by_date :
        LET d == events_by_date[k].date
        IN  Listed(events_by_date[k].new) =
                {cid \in CampusIds :
                    /\ EnrolledIn(d, cid)
                    /\ \A j \in ReportDates(d - 1) : cid \notin FileIds(j)}

\* C7 as amended: the new students of an event are the students enrolled
\* in its file who are not in the last file processed before it.
NewIsNotInPrecedingFile ==
    \A k \in DOMAIN events_by_date :
        LET d == events_by_date[k].date
            before == IdsBefore(d)
        IN  \A cid \in CampusIds :
                TimesListed(events_by_date[k].new, cid) =
                    IF EnrolledIn(d, cid) /\ cid \notin before THEN 1 ELSE 0

\* C7, its case: an event with a new student who was in an earlier file,
\* and an enrolled student who is not new.
NewAfterAbsence ==
    \E k \in DOMAIN events_by_date :
        LET d == events_by_date[k].date
        IN  /\ \E cid \in Listed(events_by_date[k].new) :
                   \E j \in ReportDates(d - 1) : cid \in FileIds(j)
            /\ \E cid \in CampusIds :
                   EnrolledIn(d, cid) /\ cid \notin Listed(events_by_date[k].new)

\* The event a pass through the loop appends lists as new exactly the
\* enrolled rows of its file whose campus id is no key of
\* previous_students.
NewAgainstPreviousStudents ==
    events_by_date' # events_by_date =>
        LET event == events_by_date'[Len(events_by_date')]
        IN  /\ event.date = rp_i'
            /\ Listed(event.new) =
                   {cid \in CampusIds :
                       /\ EnrolledIn(rp_i', cid)
                       /\ cid \notin Keys(report_previous_students)}

\* previous_students holds the students of the last file processed.
PreviousIsLastProcessed ==
    Keys(report_previous_students) = IdsBefore(rp_i + 1)

\* A student enrolled, missing from the next file processed and enrolled
\* in the one after is new on both dates.
ReturnIsNewAgain ==
    \A cid \in CampusIds : \A k \in DOMAIN events_by_date :
        (/\ k >= 3
         /\ EnrolledIn(events_by_date[k - 2].date, cid)
         /\ cid \notin FileIds(events_by_date[k - 1].date)
         /\ EnrolledIn(events_by_date[k].date, cid))
            => cid \in Listed(events_by_date[k].new)

\* C8: new_students holds exactly the "Enrolled" rows whose campus id is no
\* key of previous_students, the students of the file processed just
\* before; so a student who is enrolled, disappears and returns enrolled
\* is new again on the date of return.
NewIsNotInPreviousStudents ==
    /\ [][NewAgainstPreviousStudents]_vars
    /\ [](PreviousIsLastProcessed /\ ReturnIsNewAgain)

\* C8, its case: a student who is new in two events.
NewTwice ==
    \E cid \in CampusIds : \E k, m \in DOMAIN events_by_date :
        /\ k < m
        /\ cid \in Listed(events_by_date[k].new)
        /\ cid \in Listed(events_by_date[m].new)

\* C9: the dropped students of an event are the students of the last file
\* processed before it who are not in its file, on every such
\* disappearance.
DroppedIsPreviousMinusCurrent ==
    \A k \in DOMAIN events_by_date :
        LET d == events_by_date[k].date
            gone == IdsBefore(d) \ FileIds(d)
        IN  \A cid \in CampusIds :
                TimesListed(events_by_date[k].dropped, cid) =
                    IF cid \in gone THEN 1 ELSE 0

\* C9, its case: a student who is dropped in two events.
DroppedTwice ==
    \E cid \in CampusIds : \E k, m \in DOMAIN events_by_date :
        /\ k < m
        /\ cid \in Listed(events_by_date[k].dropped)
        /\ cid \in Listed(events_by_date[m].dropped)

----------------------------------------------------------------------------
(* generate_enrollment_roster: files the walk skips *)

\* The dates up to i whose files the roster walk goes through.
RosterDates(i) == {j \in 1..i : RosterProcessed(j)}

\* Date k is processed, date j is the last processed date before it, and
\* at least one skipped file lies between them.
SkippedBetween(j, k) ==
    /\ j + 1 < k
    /\ RosterProcessed(j)
    /\ RosterProcessed(k)
    /\ \A m \in (j + 1)..(k - 1) : ~RosterProcessed(m)

\* C18: when the roster walk skips a file, previous_students stays the
\* membership of the last file it went through; a student of that file who
\* is missing from the next file gone through, and was not dropped before,
\* gets that next file's date as dropped date, and no dropped date is ever
\* the date of a skipped file.
SkipKeepsPreviousStudents ==
    /\ previous_students =
          IF RosterDates(r_i) = {} THEN {}
          ELSE FileIds(Max(RosterDates(r_i)))
    /\ \A cid \in DOMAIN dropped_dates :
          RosterProcessed(dropped_dates[cid])
    /\ \A k \in 1..r_i : \A j \in 1..(k - 1) :
          SkippedBetween(j, k) =>
              \A cid \in FileIds(j) \ FileIds(k) :
                  /\ cid \in DOMAIN dropped_dates
                  /\ dropped_dates[cid] <= k
                  /\ (\A m \in 1..j : ~DisappearsAt(m, cid)) =>
                         dropped_dates[cid] = k

\* C18, its case: a student listed on date 1 whose file of date 2 cannot
\* be read and who is missing on date 3 is dropped on date 3.
DroppedAfterSkippedFile ==
    /\ r_pc = "done"
    /\ Len(roster_files) = 3
    /\ ~roster_files[2].readable
    /\ SkippedBetween(1, 3)
    /\ "N1" \in FileIds(1) \ FileIds(3)
    /\ r_result = "file"
    /\ \E k \in DOMAIN extra_rows :
          /\ extra_rows[k].campus_id = "N1"
          /\ extra_rows[k].dropped_date = <<3>>

\* One step of the walk keeps every entry of the map and gives the date of
\* the file of this step to every key it adds.
OnlyGains(dates) ==
    /\ \A cid \in DOMAIN dates :
          cid \in DOMAIN dates' /\ dates'[cid] = dates[cid]
    /\ \A cid \in (DOMAIN dates') \ (DOMAIN dates) : dates'[cid] = r_i'

\* C20: at every step of the roster walk enrollment_dates and dropped_dates
\* only gain keys: an entry once made is never changed or removed by a
\* later step, and its value is the date of the step that made it.
RecordedDatesNeverChange ==
    [][OnlyGains(enrollment_dates) /\ OnlyGains(dropped_dates)]_vars

\* C20, its case: a student enrolled on date 1 and missing on date 2 is
\* enrolled again on date 3 and missing again on date 4, and both first
\* dates are still the ones recorded when the walk ends.
FirstDatesSurviveLaterFiles ==
    /\ r_pc = "done"
    /\ Len(roster_files) = 4
    /\ EnrolledIn(1, "N2") /\ EnrolledIn(3, "N2")
    /\ DisappearsAt(2, "N2") /\ DisappearsAt(4, "N2")
    /\ enrollment_dates["N2"] = 1
    /\ dropped_dates["N2"] = 2

\* The students listed in the files of dates up to i that the roster walk
\* goes through.
IdsProcessed(i) == UNION {FileIds(j) : j \in RosterDates(i)}

\* C19, as claimed: a file skipped because it has no "Status" column is
\* skipped as a whole; student_records holds only students of files gone
\* through, and the roster written lists only such students.
SkippedFileLeavesNoTrace ==
    /\ DOMAIN student_records \subseteq IdsProcessed(r_i)
    /\ DOMAIN enrollment_dates \subseteq IdsProcessed(r_i)
    /\ DOMAIN dropped_dates \subseteq IdsProcessed(r_i)
    /\ previous_students \subseteq IdsProcessed(r_i)
    /\ r_result = "file" => OutputIds \subseteq IdsProcessed(r_i)

----------------------------------------------------------------------------
(* generate_enrollment_report: files the walk skips *)

\* A pass of the loop over a file the report walk cannot get through
\* leaves the state of the walk as it was.
SkipChangesNothing ==
    (rp_i' = rp_i + 1 /\ ~ReportProcessed(rp_i')) =>
        UNCHANGED <<events_by_date, report_previous_students,
                    withdrawn_students_set>>

\* No event carries the date of a skipped file.
NoEventForSkipped ==
    \A m \in DOMAIN events_by_date :
        ReportProcessed(events_by_date[m].date)

\* Across skipped files the comparison is with the last file gone through:
\* the event of the next processed date lists as dropped the students of
\* that earlier file it lacks, and a student in both files is neither
\* dropped nor new.
ComparedAcrossSkipped ==
    \A m \in DOMAIN events_by_date :
        LET k == events_by_date[m].date
            before == ReportDates(k - 1)
        IN  (before # {} /\ Max(before) + 1 < k) =>
                LET j == Max(before)
                IN  /\ Listed(events_by_date[m].dropped) =
                           FileIds(j) \ FileIds(k)
                    /\ \A cid \in FileIds(j) \cap FileIds(k) :
                           cid \notin Listed(events_by_date[m].new)

\* C12: a file the report walk cannot read gives no event and leaves
\* previous_students and withdrawn_students_set unchanged, so the next
\* file is compared with the last one read: a student missing only from
\* the skipped date is neither dropped nor new.
UnreadableFileIsPassedOver ==
    [][SkipChangesNothing]_vars
        /\ [](NoEventForSkipped /\ ComparedAcrossSkipped)

\* C12, its case: a student enrolled on dates 1 and 3, with a file that
\* cannot be read on date 2, appears in no list of the event of date 3.
AbsentOnlyFromSkippedDate ==
    /\ rp_pc = "done"
    /\ Len(roster_files) = 3
    /\ ~roster_files[2].readable
    /\ EnrolledIn(1, "N1") /\ EnrolledIn(3, "N1")
    /\ Len(events_by_date) = 2
    /\ events_by_date[2].date = 3
    /\ "N1" \notin Listed(events_by_date[2].new)
    /\ "N1" \notin Listed(events_by_date[2].dropped)

----------------------------------------------------------------------------
(* generate_enrollment_roster: the content of the rows written *)

\* The row of the student in the file of date i.
RowIn(i, cid) ==
    LET rows == roster_files[i].rows
    IN  rows[CHOOSE k \in DOMAIN rows : rows[k].campus_id = cid]

\* What a row written carries over from the roster it was taken from:
\* every column but "Status" and the two dates.
BaseContent(row) ==
    <<row.campus_id, row.first_name, row.last_name, row.email,
      row.status_notes>>

\* C11, as claimed: every row of the roster written carries the content of
\* the student's row in the most recent file gone through that lists the
\* student, the last file or an earlier one.
BaseRowIsMostRecent ==
    r_result = "file" =>
        \A k \in DOMAIN OutputRows :
            LET cid == OutputRows[k].campus_id
                seen == {i \in RosterDates(Len(roster_files)) :
                            cid \in FileIds(i)}
            IN  seen # {} =>
                    BaseContent(OutputRows[k]) =
                        BaseContent(RowIn(Max(seen), cid))

----------------------------------------------------------------------------
(* Both functions on one timeline *)

\* The timeline is empty, or each walk skips every file of it: pd.read_csv
\* raises on the file, or a row of it lacks the "Status" column.
NothingUsable ==
    \A i \in DOMAIN roster_files :
        ~RosterProcessed(i) /\ ~ReportProcessed(i)

\* C13, as claimed: on a timeline that is empty or has only files the
\* walks skip, generate_enrollment_roster and generate_enrollment_report
\* both come to their end and return None: neither stops before its end,
\* and neither returns an output file.
NothingUsableGivesNone ==
    NothingUsable =>
        /\ r_pc = "loop" => ENABLED RosterNext
        /\ rp_pc = "loop" => ENABLED ReportNext
        /\ r_pc = "done" => r_result = "none"
        /\ rp_pc = "done" => rp_result = "none"

\* The same for the files pd.read_csv raises on, where it holds.
NothingReadableGivesNone ==
    (\A i \in DOMAIN roster_files : ~roster_files[i].readable) =>
        /\ r_pc = "loop" => ENABLED RosterNext
        /\ rp_pc = "loop" => ENABLED ReportNext
        /\ r_pc = "done" => r_result = "none"
        /\ rp_pc = "done" => rp_result = "none"

RECURSIVE RosterAlone(_)
\* generate_enrollment_roster run by itself: its dicts after the first n
\* files (lines 82-114).
RosterAlone(n) ==
    IF n = 0
    THEN [enrollment_dates |-> EmptyDict, dropped_dates |-> EmptyDict,
          student_records |-> EmptyDict, previous_students |-> {}]
    ELSE LET s == RosterAlone(n - 1)
             df == ReadCsv(roster_files[n])
             t == TrackEnrollments(df.rows, 1, df.has_status, n,
                                   s.student_records, s.enrollment_dates)
         IN  IF df.raised THEN s
             ELSE IF t.raised
             THEN [s EXCEPT !.student_records = t.records,
                            !.enrollment_dates = t.dates]
             ELSE [enrollment_dates |-> t.dates,
                   dropped_dates |-> DetectDrops(s.dropped_dates,
                       s.previous_students, IdsOf(df.rows), n),
                   student_records |-> t.records,
                   previous_students |-> IdsOf(df.rows)]

RECURSIVE ReportAlone(_)
\* generate_enrollment_report run by itself: its dicts after the first n
\* files (lines 177-232).
ReportAlone(n) ==
    IF n = 0
    THEN [previous_students |-> <<>>, withdrawn_students_set |-> {},
          events_by_date |-> <<>>]
    ELSE LET s == ReportAlone(n - 1)
             df == ReadCsv(roster_files[n])
             scan == ScanRows(df.rows, 1, s.previous_students,
                              [current |-> <<>>, new |-> <<>>,
                               withdrawn |-> <<>>,
                               withdrawn_set |-> s.withdrawn_students_set])
         IN  IF df.raised \/ (~df.has_status /\ df.rows # <<>>) THEN s
             ELSE [previous_students |-> scan.current,
                   withdrawn_students_set |-> scan.withdrawn_set,
                   events_by_date |-> RecordEvent(s.events_by_date,
                       DateEvent(n, scan.new,
                           DroppedStudents(s.previous_students,
                                           scan.current),
                           scan.withdrawn))]

\* The roster generate_enrollment_roster may write when run by itself
\* (lines 117-148), the rows it adds in any order.
RosterAloneWrites(df_rows, added_rows) ==
    LET s == RosterAlone(Len(roster_files))
        df == ReadCsv(LastFile)
        missing_ids == MissingIds(s.student_records, df.rows)
    IN  /\ ~df.raised
        /\ df_rows = [k \in DOMAIN df.rows |->
                         WithDates(df.rows[k], s.enrollment_dates,
                                   s.dropped_dates)]
        /\ \E order \in Orders(missing_ids) :
               added_rows = [k \in DOMAIN order |->
                   ExtraRow(order[k], s.student_records,
                            s.enrollment_dates, s.dropped_dates)]

\* C15: whatever the order and the interleaving of the passes of the two
\* functions over one timeline, each has at every point the dicts it has
\* when run by itself over the same files, and returns what it returns
\* when run by itself.
EachWalkAsAlone ==
    /\ LET s == RosterAlone(r_i)
       IN  /\ enrollment_dates = s.enrollment_dates
           /\ dropped_dates = s.dropped_dates
           /\ student_records = s.student_records
           /\ previous_students = s.previous_students
    /\ LET s == ReportAlone(rp_i)
       IN  /\ report_previous_students = s.previous_students
           /\ withdrawn_students_set = s.withdrawn_students_set
           /\ events_by_date = s.events_by_date
    /\ r_pc = "done" =>
          IF r_result = "file"
          THEN RosterAloneWrites(r_df, extra_rows)
          ELSE \/ roster_files = <<>>
               \/ ReadCsv(LastFile).raised
               \/ ~output_dir_ok
    /\ rp_pc = "done" =>
          rp_result = IF ReportAlone(Len(roster_files)).events_by_date
                             = <<>>
                      THEN "none"
                      ELSE IF output_dir_ok THEN "file" ELSE "raised"

\* C15, its case: the report walk has finished a timeline with a drop
\* while the roster walk is still between the two files, with the students
\* of the first file as previous_students and no drop recorded yet.
WalksOutOfStep ==
    /\ Len(roster_files) = 2
    /\ rp_pc = "done" /\ rp_result = "file"
    /\ Len(events_by_date) = 2
    /\ events_by_date[2].dropped # <<>>
    /\ r_pc = "loop" /\ r_i = 1
    /\ previous_students # {}
    /\ dropped_dates = EmptyDict

----------------------------------------------------------------------------
(* Both functions run twice *)

\* C14, as claimed: a second run of the two functions on the same timeline
\* returns what the first run returned: the same rows of the roster in the
\* same order, and the same events with the same lists in the same order.
SecondRunSameOutput ==
    (first_run # <<>> /\ r_pc = "done" /\ rp_pc = "done") =>
        RunOutput = first_run[1]

\* The part of it that holds: the results, the events, the rows of the
\* most recent roster, and the rows added up to their order.
SecondRunSameUpToOrder ==
    (first_run # <<>> /\ r_pc = "done" /\ rp_pc = "done") =>
        LET rows == first_run[1].roster_rows
        IN  /\ r_result = first_run[1].roster_result
            /\ rp_result = first_run[1].report_result
            /\ events_by_date = first_run[1].events
            /\ Len(rows) = Len(OutputRows)
            /\ \A k \in DOMAIN r_df : rows[k] = r_df[k]
            /\ {rows[k] : k \in DOMAIN rows} =
                   {OutputRows[k] : k \in DOMAIN OutputRows}

----------------------------------------------------------------------------
(* find_roster_files: the claim *)

\* The (date, file) tuples of the section in the directory: one for each
\* dated directory that holds <section_name>.csv.
PairsOf(section_name) ==
    UNION {{<<name, [dir |-> name, name |-> f]>> :
               f \in {g \in rosters_dir[name].files :
                         g.stem = section_name /\ g.suffix = CsvSuffix}} :
           name \in {n \in DirNames : rosters_dir[n].kind = "dir"}}

\* C17: the dict find_roster_files returns has a key for exactly the stems
\* with a .csv file in some dated directory; the list of a key holds each
\* (date, file) tuple of that section once and nothing else, so no file of
\* another stem, and its dates ascend.
FoundIsGroupedAndSorted ==
    found # <<>> =>
        LET result == found[1]
        IN  /\ DOMAIN result =
                   {f.stem : f \in {g \in FileNames :
                                       PairsOf(g.stem) # {}}}
            /\ \A section_name \in DOMAIN result :
                  LET list == result[section_name]
                  IN  /\ {list[k] : k \in DOMAIN list} =
                             PairsOf(section_name)
                      /\ \A k \in DOMAIN list :
                             list[k][2].name.stem = section_name
                      /\ \A j, k \in DOMAIN list :
                             j < k => Rank(list[j][1]) < Rank(list[k][1])

\* C17, its case: a section with files on the first and the last date and
\* none between, where another section has its only file, next to a file
\* that is no .csv.
SectionsFoundApart ==
    /\ found # <<>>
    /\ DOMAIN found[1] = {"001", "002"}
    /\ Len(found[1]["001"]) = 2
    /\ found[1]["001"][1][1] = DateNames[1]
    /\ found[1]["001"][2][1] = DateNames[3]
    /\ Len(found[1]["002"]) = 1
    /\ found[1]["002"][1][1] = DateNames[2]
    /\ \E f \in rosters_dir[DateNames[2]].files : f.suffix # CsvSuffix

----------------------------------------------------------------------------
(* enrollment_rosters and enrollment_reports: the claim *)

\* The sections the function was called for and came to an end in, by a
\* return or by an exception.
SectionsGoneThrough == s_i + (IF s_pc = "raised" THEN 1 ELSE 0)

\* C16, as claimed: whatever happens in one section (a file that cannot be
\* read, a failure, no output), the command goes on to the sections that
\* remain: when it is over, the function has been called for every one.
EverySectionIsProcessed ==
    s_pc \in {"done", "raised"} => SectionsGoneThrough = Len(sections)

\* What does hold: with an output directory that can be created the
\* command gets through every section, and a section gets what the
\* function called gives on its files alone.
EverySectionIsProcessedIfWritable ==
    output_dir_ok =>
        /\ EverySectionIsProcessed
        /\ (s_pc = "call" /\ command = "rosters" /\ r_pc = "done") =>
               IF r_result = "file"
               THEN RosterAloneWrites(r_df, extra_rows)
               ELSE ReadCsv(LastFile).raised
        /\ (s_pc = "call" /\ command = "reports" /\ rp_pc = "done") =>
               /\ events_by_date =
                      ReportAlone(Len(roster_files)).events_by_date
               /\ rp_result =
                      IF events_by_date = <<>> THEN "none" ELSE "file"

----------------------------------------------------------------------------
(* generate_enrollment_roster: the order and the ids of the rows written *)

\* The rows written start with the rows of the most recent roster, in the
\* order of the file, and the rows after them are of students the file
\* does not list.
LastFileRowsComeFirst ==
    r_result = "file" =>
        /\ Len(r_df) = Len(LastFile.rows)
        /\ \A k \in DOMAIN r_df :
              r_df[k].campus_id = LastFile.rows[k].campus_id
        /\ \A k \in DOMAIN extra_rows :
              extra_rows[k].campus_id \notin FileIds(Len(roster_files))

\* C21, as claimed: the roster written lists the rows of the most recent
\* file in their order, then the rows built for the students missing from
\* it, and these come in the same order in every run on the same timeline.
OutputOrderIsFixed ==
    /\ LastFileRowsComeFirst
    /\ (first_run # <<>> /\ r_pc = "done" /\ r_result = "file") =>
          [k \in DOMAIN OutputRows |-> OutputRows[k].campus_id] =
              [k \in DOMAIN first_run[1].roster_rows |->
                  first_run[1].roster_rows[k].campus_id]

\* C22, as claimed: every row written with the status forced to "Dropped",
\* the row of a student missing from the most recent roster, has a dropped
\* date, and the date is not after the date of the most recent roster.
ForcedDroppedHasDate ==
    r_result = "file" =>
        \A k \in DOMAIN extra_rows :
            /\ extra_rows[k].status = Dropped
            /\ extra_rows[k].dropped_date # <<>>
            /\ extra_rows[k].dropped_date[1] <= Len(roster_files)

----------------------------------------------------------------------------
(* The two functions compared *)

\* Up to date n both walks go through the same files.
SameFilesProcessed(n) ==
    \A i \in 1..n : RosterProcessed(i) <=> ReportProcessed(i)

\* The dates of the events that list the student as dropped.
DroppedEventDates(cid) ==
    {events_by_date[k].date :
        k \in {m \in DOMAIN events_by_date :
                  cid \in Listed(events_by_date[m].dropped)}}

\* C23: when both walks have gone through the same files, the dropped date
\* generate_enrollment_roster has for a student is the date of the first
\* event of generate_enrollment_report that lists the student as dropped,
\* and there is none exactly when no event does.
DropsAgree ==
    (r_i = rp_i /\ SameFilesProcessed(r_i)) =>
        \A cid \in CampusIds :
            Get(dropped_dates, cid) = First(DroppedEventDates(cid))

\* C23, its case: a student missing on date 2, back on date 3 and missing
\* again on date 4 is listed as dropped by two events, and the dropped
\* date is the date of the first.
BothSeeTheFirstDrop ==
    /\ r_pc = "done" /\ rp_pc = "done"
    /\ Len(roster_files) = 4
    /\ SameFilesProcessed(4)
    /\ dropped_dates = [c \in {"N1"} |-> 2]
    /\ DroppedEventDates("N1") = {2, 4}

\* The dates of the events that list the student as new.
NewEventDates(cid) ==
    {events_by_date[k].date :
        k \in {m \in DOMAIN events_by_date :
                  cid \in Listed(events_by_date[m].new)}}

\* The roster walk has an enrollment date, not after d, for every student
\* an event of a date d it has been through lists as new.
NewIsEnrolledByThen ==
    \A cid \in CampusIds : \A d \in NewEventDates(cid) :
        d <= r_i =>
            /\ cid \in DOMAIN enrollment_dates
            /\ enrollment_dates[cid] <= d

\* C24, as claimed: a student an event lists as new has an enrollment date
\* not after the date of the event, and the enrollment date is the date of
\* the first event that lists the student as new.
EnrolledAtFirstNew ==
    /\ NewIsEnrolledByThen
    /\ \A cid \in CampusIds :
          (NewEventDates(cid) # {} /\ Min(NewEventDates(cid)) <= r_i) =>
              Get(enrollment_dates, cid) = <<Min(NewEventDates(cid))>>

\* C24, as the code has it: a student an event lists as new has an
\* enrollment date not after the date of the event, and it is the date of
\* the event when no file before it lists the student as "Enrolled".
EnrolledNotAfterNew ==
    /\ NewIsEnrolledByThen
    /\ \A cid \in CampusIds : \A d \in NewEventDates(cid) :
          (d <= r_i /\ \A j \in 1..(d - 1) : ~EnrolledIn(j, cid)) =>
              enrollment_dates[cid] = d

\* C24, its case: a student waitlisted on date 1 and enrolled on date 2,
\* missing on date 3 and enrolled on date 4, is new for the first time on
\* date 4 and has the enrollment date 2.
EnrolledBeforeFirstNew ==
    /\ r_pc = "done" /\ rp_pc = "done"
    /\ Len(roster_files) = 4
    /\ HasStatus(1, "N1", Waitlisted)
    /\ EnrolledIn(2, "N1")
    /\ NewEventDates("N1") = {4}
    /\ enrollment_dates["N1"] = 2

----------------------------------------------------------------------------
(* generate_enrollment_report: the lists of one event and the state kept *)

\* C25: at every state of the walk, in every event recorded so far no
\* student is both new and dropped; the new and the withdrawn students are
\* on the roster of the date of the event, and the dropped students are
\* not.
EventListsFitTheRoster ==
    [](\A k \in DOMAIN events_by_date :
          LET event == events_by_date[k]
              on_roster == FileIds(event.date)
          IN  /\ Listed(event.new) \cap Listed(event.dropped) = {}
              /\ Listed(event.new) \subseteq on_roster
              /\ Listed(event.withdrawn) \subseteq on_roster
              /\ Listed(event.dropped) \cap on_roster = {})

\* C25, its case: an event with one student dropped and another one both
\* new and withdrawn.
EventWithAllThreeLists ==
    \E k \in DOMAIN events_by_date :
        /\ Listed(events_by_date[k].dropped) = {"N1"}
        /\ Listed(events_by_date[k].new) = {"N2"}
        /\ Listed(events_by_date[k].withdrawn) = {"N2"}

----------------------------------------------------------------------------
(* generate_enrollment_roster: one row for a student *)

\* C26: with every student at most once in each file, the roster written
\* has every student at most once: the rows built for missing students
\* are of students the most recent roster does not list, and no two of
\* them are of the same student.
OutputIdsAreUnique ==
    r_result = "file" =>
        /\ \A j, k \in DOMAIN OutputRows :
              j # k => OutputRows[j].campus_id # OutputRows[k].campus_id
        /\ \A k \in DOMAIN extra_rows :
              extra_rows[k].campus_id \notin IdsOf(r_df)

\* C26, its case: a student listed on two dates and missing from the most
\* recent roster has one row, after the row of the student who stayed.
OneRowForAStudentSeenTwice ==
    /\ r_result = "file"
    /\ Len(roster_files) = 3
    /\ "N1" \in FileIds(1) \cap FileIds(2)
    /\ IdsOf(r_df) = {"N2"}
    /\ IdsOf(extra_rows) = {"N1"}
    /\ Len(extra_rows) = 1

\* The students listed as withdrawn in some event recorded so far.
EverListedWithdrawn ==
    UNION {Listed(events_by_date[k].withdrawn) : k \in DOMAIN events_by_date}

\* C27: after every step of the report walk withdrawn_students_set is the
\* set of the students listed as withdrawn in some event recorded so far
\* and the keys of previous_students are the students of the last file
\* processed; no step takes a student out of withdrawn_students_set.
WalkStateFitsTheEvents ==
    /\ [](/\ withdrawn_students_set = EverListedWithdrawn
          /\ Keys(report_previous_students) = IdsBefore(rp_i + 1))
    /\ [][withdrawn_students_set \subseteq withdrawn_students_set']_vars

\* C27, its case: a student reported as withdrawn has left the roster, a
\* second student is reported as withdrawn later, and the file just gone
\* through was skipped with students in previous_students.
WithdrawnKeptAfterLeaving ==
    /\ rp_i = 3
    /\ ~ReportProcessed(3)
    /\ Len(events_by_date) = 2
    /\ Listed(events_by_date[1].withdrawn) = {"N1"}
    /\ Listed(events_by_date[2].withdrawn) = {"N2"}
    /\ withdrawn_students_set = {"N1", "N2"}
    /\ Keys(report_previous_students) = {"N2"}

----------------------------------------------------------------------------
(* The first roster gone through *)

\* The dates up to i whose files pd.read_csv parses.
ReadableDates(i) == {j \in 1..i : roster_files[j].readable}

\* C28: nothing is dropped at the first roster gone through.  The first
\* event of the report has no dropped student and lists as new each
\* "Enrolled" row of its file, once; no dropped date of the roster walk, in
\* dropped_dates or in a row written, is the date of the first file the
\* walk went through, or of the first file it could parse.
NothingDroppedAtFirstRoster ==
    /\ events_by_date # <<>> =>
          LET e == events_by_date[1]
              enrolled == {cid \in CampusIds : EnrolledIn(e.date, cid)}
          IN  /\ e.date = Min(ReportDates(rp_i))
              /\ e.dropped = <<>>
              /\ Listed(e.new) = enrolled
              /\ Len(e.new) = Cardinality(enrolled)
    /\ \A cid \in DOMAIN dropped_dates :
          /\ RosterDates(r_i) # {}
          /\ dropped_dates[cid] > Min(RosterDates(r_i))
          /\ dropped_dates[cid] > Min(ReadableDates(r_i))
    /\ \A k \in DOMAIN OutputRows :
          OutputRows[k].dropped_date # <<>> =>
              OutputRows[k].dropped_date[1] > Min(RosterDates(r_i))

\* C28, its case: the first file is skipped, the second lists an enrolled
\* student and one on the waiting list, and the third lists neither.  The
\* first event is of date 2, with the enrolled student as new, and both
\* students are dropped on date 3.
FirstRosterAfterSkippedFile ==
    /\ r_pc = "done" /\ rp_pc = "done"
    /\ Len(roster_files) = 3
    /\ ~roster_files[1].readable
    /\ EnrolledIn(2, "N1") /\ HasStatus(2, "N2", Waitlisted)
    /\ RosterProcessed(3) /\ FileIds(3) = {}
    /\ events_by_date[1].date = 2
    /\ Listed(events_by_date[1].new) = {"N1"}
    /\ dropped_dates = [c \in {"N1", "N2"} |-> 3]
    /\ Len(extra_rows) = 2

----------------------------------------------------------------------------
(* src/tasks.py: sync_gradescope_rosters, the claim *)

\* The courses attempted, in the order of the attempts, and the attempts
\* that synced a roster.
CoursesAttempted == [k \in DOMAIN attempted |-> attempted[k].cid]
CoursesSynced == {k \in DOMAIN attempted : attempted[k].synced}

\* C30: a course that fails does not stop the loop.  While the loop runs
\* the courses attempted are the first sr_i of the list, in its order;
\* once the loop was entered and the command is over, every course of
\* the list was attempted, once for each time it is listed; and the
\* command exits with code 1 exactly when no attempt synced a roster,
\* with code 0 otherwise.
FailedCourseDoesNotStopTheLoop ==
    /\ sr_pc = "loop" => CoursesAttempted = SubSeq(course_ids, 1, sr_i)
    /\ sr_pc = "done" =>
          /\ (edubag_available => CoursesAttempted = course_ids)
          /\ sr_exit = 1 <=> CoursesSynced = {}
          /\ sr_exit = 0 <=> CoursesSynced # {}

\* C30, its case: three courses, not all synced and not all failed, and
\* the command is over with code 0.
PartialSuccessExitsNormally ==
    /\ sr_pc = "done"
    /\ Len(course_ids) = 3
    /\ CoursesAttempted = course_ids
    /\ ~attempted[1].synced /\ attempted[2].synced /\ ~attempted[3].synced
    /\ sr_exit = 0

----------------------------------------------------------------------------
(* src/tasks.py: sync_gradescope_sections, the claim *)

\* Both passes of the download loop were made and both raised.
BothAttemptsFailed ==
    /\ Len(attempts) = 2
    /\ attempts[1].raised /\ attempts[2].raised

\* The gradebook the pair goes on with.
GradebookUsed == gradebook_paths[1].files[1]

=============================================================================
